---- MODULE Spec2Model ----
(***************************************************************************)
(* The Express application of src/src/server.ts (server.ts followed by the *)
(* index.ts bootstrap) with the authentication module of src/README.MD     *)
(* (createJWT and protect, lines 259-302) and the router of README.MD      *)
(* lines 137-185.                                                          *)
(*                                                                         *)
(* JavaScript values are tagged records: Undef is `undefined`, Str(s) is a *)
(* string whose characters are the atoms of s.  An atom is a space (SP), a *)
(* whitespace character other than the space (WS: U+00A0, which a header   *)
(* value may carry anywhere, or a tab inside it), a run of ordinary        *)
(* characters (Word), or a whole JSON Web Token.  A token is its payload   *)
(* and its signature; the signature is an ideal MAC: it names the key and  *)
(* the payload it was computed over.                                       *)
(***************************************************************************)
EXTENDS Integers, Sequences, FiniteSets, TLC

VARIABLES pc, envFile, secret, now, running, reqs, jwtCall

vars == <<pc, envFile, secret, now, running, reqs, jwtCall>>

(* ------------------------------ bounds -------------------------------- *)

MaxReqs == 2

MaxTime == 1

MaxHeaderLen == 3

(* ------------------------------ values -------------------------------- *)

Undef == [t |-> "undefined"]

Throw == [t |-> "error"]

Str(s) == [t |-> "str", s |-> s]

(* an object, by its fields *)
Obj(f) == [t |-> "obj", f |-> f]

NoSecret == ""

(* a payload's optional exp claim: the empty set when it carries none *)
NoExp == {}

Reqs == 1..MaxReqs

Times == 0..MaxTime

SP == [kind |-> "sp"]

WS == [kind |-> "ws"]

Word == [kind |-> "word"]

(* `!bearer`, `!token`: undefined and the empty string are falsy *)
Truthy(v) == v.t # "undefined" /\ (v.t = "str" => v.s # <<>>)

(* ---------------------------- jsonwebtoken ---------------------------- *)

HMAC(key, payload) == [key |-> key, msg |-> payload]

Jwt(payload, sig) == [kind |-> "jwt", payload |-> payload, sig |-> sig]

(* variant of sign: the issued-at claim is not the time of signing *)
sign_staleIat(payload, key, t) ==
    IF key = NoSecret THEN Throw
    ELSE LET p == [id |-> payload.id, username |-> payload.username,
                   iat |-> 0, exp |-> payload.exp]
         IN Str(<<Jwt(p, HMAC(key, p))>>)

(* jwt.sign(payload, secret): throws without a secret; adds iat, the time *)
(* of signing; no exp unless the payload already carries one              *)
sign(payload, key, t) ==
    IF key = NoSecret THEN Throw
    ELSE LET p == [id |-> payload.id, username |-> payload.username,
                   iat |-> t, exp |-> payload.exp]
         IN Str(<<Jwt(p, HMAC(key, p))>>)

createJWT(user, key, t) ==
    sign([id |-> user.id, username |-> user.username, exp |-> NoExp], key, t)

(* variant of verify: a missing secret is not noticed, and the signature *)
(* is only checked against the payload                                  *)
verify_noSecretCheck(token, key, t) ==
    IF Len(token.s) # 1 \/ token.s[1].kind # "jwt" THEN Throw
    ELSE LET j == token.s[1] IN
         IF j.sig.msg # j.payload THEN Throw
         ELSE IF \E e \in j.payload.exp : t >= e THEN Throw
         ELSE Obj(j.payload)

(* variant of verify: exp is ignored *)
verify_noExpiry(token, key, t) ==
    IF key = NoSecret THEN Throw
    ELSE IF Len(token.s) # 1 \/ token.s[1].kind # "jwt" THEN Throw
    ELSE LET j == token.s[1] IN
         IF j.sig # HMAC(key, j.payload) THEN Throw
         ELSE Obj(j.payload)

(* jwt.verify(token, secret): the decoded payload, or an exception when   *)
(* the secret is missing, the string is not a token, the signature is not *)
(* the secret's MAC of the payload, or the payload's exp has passed       *)
verify(token, key, t) ==
    IF key = NoSecret THEN Throw
    ELSE IF Len(token.s) # 1 \/ token.s[1].kind # "jwt" THEN Throw
    ELSE LET j == token.s[1] IN
         IF j.sig # HMAC(key, j.payload) THEN Throw
         ELSE IF \E e \in j.payload.exp : t >= e THEN Throw
         ELSE Obj(j.payload)

(* ------------------------------ protect ------------------------------- *)

RECURSIVE split(_)
(* bearer.split(" "): the pieces between single spaces, empty ones kept   *)
split(s) ==
    IF \A i \in 1..Len(s) : s[i] # SP THEN <<s>>
    ELSE LET i == CHOOSE k \in 1..Len(s) :
                     s[k] = SP /\ \A m \in 1..(k-1) : s[m] # SP
         IN <<SubSeq(s, 1, i-1)>> \o split(SubSeq(s, i+1, Len(s)))

(* variant of second: `const [token] = ...` *)
second_takesFirst(parts) == Str(parts[1])

(* const [, token] = ...: the second element, undefined when there is none *)
second(parts) == IF Len(parts) >= 2 THEN Str(parts[2]) ELSE Undef

(* res.status(401); res.send("Not authorized"); return; *)
reject(req, log) ==
    [req EXCEPT !.statusCode = 401, !.body = "Not authorized", !.sent = TRUE,
                !.logged = log, !.stage = "done"]

(* req.user = payload; console.log(payload); next(); *)
(* variant of forward: next() is called twice *)
forward_nextTwice(req, payload) ==
    [req EXCEPT !.user = payload, !.logged = "payload",
                !.nextCalls = @ + 2, !.stage = "router"]

(* variant of forward: next() without `req.user = payload` *)
forward_noAttach(req, payload) ==
    [req EXCEPT !.logged = "payload", !.nextCalls = @ + 1, !.stage = "router"]

forward(req, payload) ==
    [req EXCEPT !.user = payload, !.logged = "payload",
                !.nextCalls = @ + 1, !.stage = "router"]

(* variant of protect: a missing header is let through *)
protect_noHeaderCheck(req, key, t) ==
    LET bearer == req.header IN
    IF ~Truthy(bearer) THEN [req EXCEPT !.nextCalls = @ + 1, !.stage = "router"]
    ELSE LET token == second(split(bearer.s)) IN
         IF ~Truthy(token) THEN reject(req, "here")
         ELSE LET payload == verify(token, key, t) IN
              IF payload = Throw THEN reject(req, "error")
              ELSE forward(req, payload)

(* variant of protect: the answer to a missing header names the cause *)
protect_leakCause(req, key, t) ==
    LET bearer == req.header IN
    IF ~Truthy(bearer) THEN [reject(req, "") EXCEPT !.body = "No token"]
    ELSE LET token == second(split(bearer.s)) IN
         IF ~Truthy(token) THEN reject(req, "here")
         ELSE LET payload == verify(token, key, t) IN
              IF payload = Throw THEN reject(req, "error")
              ELSE forward(req, payload)

(* The middleware of README.MD lines 273-302, as a function of the request *)
(* object, process.env.JWT_SECRET and the clock jwt.verify reads          *)
protect(req, key, t) ==
    LET bearer == req.header IN
    IF ~Truthy(bearer) THEN reject(req, "")
    ELSE LET token == second(split(bearer.s)) IN
         IF ~Truthy(token) THEN reject(req, "here")
         ELSE LET payload == verify(token, key, t) IN
              IF payload = Throw THEN reject(req, "error")
              ELSE forward(req, payload)

(* ------------------------------ requests ------------------------------ *)

(* a request line: the method and the path's segments ("/" is <<>>) *)
Target(method, path) == [method |-> method, path |-> path]

Targets == {Target("GET", <<>>), Target("GET", <<"api", "product">>),
            Target("POST", <<"api", "product">>), Target("GET", <<"other">>)}

(* a request nobody has sent yet *)
Idle == [stage |-> "idle", target |-> Target("", <<>>), header |-> Undef,
         user |-> Undef, statusCode |-> 200, body |-> "", sent |-> FALSE,
         nextCalls |-> 0, logged |-> ""]

(* the request and response objects Express builds for an incoming request *)
NewRequest(target, header, stage) ==
    [Idle EXCEPT !.stage = stage, !.target = target, !.header = header]

(* the header `Bearer <token>` *)
Bearer(tok) == Str(<<Word, SP>> \o tok.s)

Ana == [id |-> 1, username |-> "ana"]

Bob == [id |-> 2, username |-> "bob"]

Users == {Ana, Bob}

(* what the clients of the running server present: no header, a token     *)
(* createJWT issued, a token signed under another key, and a token signed *)
(* under the server's key with an exp claim                               *)
ClientHeaders ==
    {Undef, Bearer(createJWT(Ana, "s1", 0)), Bearer(createJWT(Ana, "s2", 0)),
     Bearer(sign([id |-> 2, username |-> "bob", exp |-> {1}], "s1", 0))}

(* every payload, and the tokens over it: signed under either key, and    *)
(* carrying the payload as signed, or with its id or its exp altered      *)
(* after signing                                                          *)
Payloads ==
    {[id |-> u.id, username |-> u.username, iat |-> t, exp |-> e] :
        u \in Users, t \in Times, e \in {NoExp} \cup {{x} : x \in Times}}

Tokens ==
    UNION {{Jwt(p, HMAC(k, p)), Jwt([p EXCEPT !.id = 3 - @], HMAC(k, p)),
            Jwt([p EXCEPT !.exp = {MaxTime}], HMAC(k, p))} :
               p \in Payloads, k \in {"s1", "s2"}}

Shapes == UNION {[1..n -> {"sp", "ws", "word", "tok"}] : n \in 0..MaxHeaderLen}

Fill(shape, tok) ==
    [i \in 1..Len(shape) |->
        CASE shape[i] = "sp" -> SP
          [] shape[i] = "ws" -> WS
          [] shape[i] = "word" -> Word
          [] OTHER -> tok]

(* req.headers.authorization: absent, or any string of at most           *)
(* MaxHeaderLen atoms that an HTTP header can carry: the parser strips    *)
(* the spaces around a header's value, and nothing else                   *)
Headers ==
    {Undef} \cup
    {Str(Fill(sh, tok)) : sh \in {x \in Shapes :
                                    Len(x) > 0 => x[1] # "sp" /\ x[Len(x)] # "sp"},
                          tok \in Tokens}

(* ------------------------------- server ------------------------------- *)

(* app.use('/api', ...): the paths the mount point matches *)
UnderApi(path) == Len(path) >= 1 /\ path[1] = "api"

(* variant of mount: app.use('/api', router), as before protect was added *)
mount_routerOnly(path) == IF UnderApi(path) THEN "router" ELSE "final"

(* app.use('/api', protect, router): the stage that follows app.get('/') *)
mount(path) == IF UnderApi(path) THEN "protect" ELSE "final"

(* the router's table: the one handler that answers, the placeholders    *)
(* that never answer, and no route                                        *)
route(method, path) ==
    IF Len(path) = 0 \/ path[1] \notin {"product", "update", "updatepoint"}
    THEN "none"
    ELSE IF Len(path) = 1 /\ path[1] = "product" /\ method = "GET" THEN "json"
    ELSE IF Len(path) = 1 /\ method \in {"GET", "POST"} THEN "stub"
    ELSE IF Len(path) = 2 /\ method \in {"GET", "PUT", "DELETE"} THEN "stub"
    ELSE "none"

respond(req, code, body) ==
    [req EXCEPT !.statusCode = code, !.body = body, !.sent = TRUE,
                !.stage = "done"]

Init ==
    /\ pc = "boot"
    /\ envFile \in {NoSecret, "s1"}
    /\ secret = NoSecret
    /\ now = 0
    /\ running = 0
    /\ reqs = [r \in Reqs |-> Idle]
    /\ jwtCall = Undef

(* dotenv.config(): the .env file's JWT_SECRET, if any, into process.env *)
DotenvConfig ==
    /\ pc = "boot"
    /\ pc' = "configured"
    /\ secret' = envFile
    /\ UNCHANGED <<envFile, now, running, reqs, jwtCall>>

(* app.listen(port, ...) *)
Listen ==
    /\ pc = "configured"
    /\ pc' = "listening"
    /\ UNCHANGED <<envFile, secret, now, running, reqs, jwtCall>>

Tick ==
    /\ now < MaxTime
    /\ now' = now + 1
    /\ UNCHANGED <<pc, envFile, secret, running, reqs, jwtCall>>

(* a request comes in while the event loop is free *)
Arrive(r) ==
    /\ pc = "listening"
    /\ running = 0
    /\ reqs[r].stage = "idle"
    /\ \E target \in Targets, header \in ClientHeaders :
          reqs' = [reqs EXCEPT ![r] = NewRequest(target, header, "parsers")]
    /\ running' = r
    /\ UNCHANGED <<pc, envFile, secret, now, jwtCall>>

(* cors(), morgan('dev'), express.json(), express.urlencoded(): each calls *)
(* next(), at once when there is no body to read *)
Parsers(r) ==
    /\ running = r
    /\ reqs[r].stage = "parsers"
    /\ reqs' = [reqs EXCEPT ![r].stage = "customLogger"]
    /\ UNCHANGED <<pc, envFile, secret, now, running, jwtCall>>

(* a body parser waits for the body: the event loop is free meanwhile *)
ReadBody(r) ==
    /\ running = r
    /\ reqs[r].stage = "parsers"
    /\ reqs' = [reqs EXCEPT ![r].stage = "body"]
    /\ running' = 0
    /\ UNCHANGED <<pc, envFile, secret, now, jwtCall>>

BodyParsed(r) ==
    /\ running = 0
    /\ reqs[r].stage = "body"
    /\ reqs' = [reqs EXCEPT ![r].stage = "customLogger"]
    /\ running' = r
    /\ UNCHANGED <<pc, envFile, secret, now, jwtCall>>

(* customLogger('Customer Logger Test'): logs and calls next() *)
customLogger(r) ==
    /\ running = r
    /\ reqs[r].stage = "customLogger"
    /\ reqs' = [reqs EXCEPT ![r].stage = "root"]
    /\ UNCHANGED <<pc, envFile, secret, now, running, jwtCall>>

(* app.get('/', ...): answers GET /, lets everything else through *)
RootRoute(r) ==
    /\ running = r
    /\ reqs[r].stage = "root"
    /\ LET q == reqs[r] IN
       IF q.target = Target("GET", <<>>)
       THEN /\ reqs' = [reqs EXCEPT ![r] = respond(q, 200, "hello")]
            /\ running' = 0
       ELSE /\ reqs' = [reqs EXCEPT ![r].stage = mount(q.target.path)]
            /\ running' = r
    /\ UNCHANGED <<pc, envFile, secret, now, jwtCall>>

(* variant of Protect: the payload is kept where every request in flight *)
(* sees it                                                              *)
Protect_sharedUser(r) ==
    /\ running = r
    /\ reqs[r].stage = "protect"
    /\ LET q == protect(reqs[r], secret, now) IN
       /\ reqs' = [o \in Reqs |->
                     IF o = r THEN q
                     ELSE IF reqs[o].stage = "idle" THEN reqs[o]
                     ELSE [reqs[o] EXCEPT !.user = q.user]]
       /\ running' = IF q.stage = "done" THEN 0 ELSE r
    /\ UNCHANGED <<pc, envFile, secret, now, jwtCall>>

(* the protect layer of the /api mount runs for the request *)
Protect(r) ==
    /\ running = r
    /\ reqs[r].stage = "protect"
    /\ LET q == protect(reqs[r], secret, now) IN
       /\ reqs' = [reqs EXCEPT ![r] = q]
       /\ running' = IF q.stage = "done" THEN 0 ELSE r
    /\ UNCHANGED <<pc, envFile, secret, now, jwtCall>>

(* the router mounted on /api: the path below the mount point is matched *)
Router(r) ==
    /\ running = r
    /\ reqs[r].stage = "router"
    /\ LET q == reqs[r]
           hit == route(q.target.method, Tail(q.target.path)) IN
       CASE hit = "json" ->
              /\ reqs' = [reqs EXCEPT ![r] = respond(q, 200, "product")]
              /\ running' = 0
         [] hit = "stub" ->
              /\ reqs' = [reqs EXCEPT ![r].stage = "hung"]
              /\ running' = 0
         [] OTHER ->
              /\ reqs' = [reqs EXCEPT ![r].stage = "final"]
              /\ running' = r
    /\ UNCHANGED <<pc, envFile, secret, now, jwtCall>>

(* Express's default answer when no route took the request *)
FinalHandler(r) ==
    /\ running = r
    /\ reqs[r].stage = "final"
    /\ reqs' = [reqs EXCEPT ![r] = respond(reqs[r], 404, "Cannot " \o reqs[r].target.method)]
    /\ running' = 0
    /\ UNCHANGED <<pc, envFile, secret, now, jwtCall>>

Next ==
    \/ DotenvConfig
    \/ Listen
    \/ Tick
    \/ \E r \in Reqs : Arrive(r)
    \/ \E r \in Reqs : Parsers(r)
    \/ \E r \in Reqs : ReadBody(r)
    \/ \E r \in Reqs : BodyParsed(r)
    \/ \E r \in Reqs : customLogger(r)
    \/ \E r \in Reqs : RootRoute(r)
    \/ \E r \in Reqs : Protect(r)
    \/ \E r \in Reqs : Router(r)
    \/ \E r \in Reqs : FinalHandler(r)

Spec == Init /\ [][Next]_vars

(* ------------------------- the gate on its own ------------------------ *)

(* the server is up, with or without a secret, at any time, and a request *)
(* carrying any header at all has reached protect                         *)
GateInit ==
    /\ pc = "listening"
    /\ envFile \in {NoSecret, "s1"}
    /\ secret = envFile
    /\ now \in Times
    /\ running = 1
    /\ \E header \in Headers :
          reqs = [r \in Reqs |->
                    IF r = 1
                    THEN NewRequest(Target("GET", <<"api", "product">>), header, "protect")
                    ELSE Idle]
    /\ jwtCall = Undef

(* a sign-in issues a token for a user *)
CallCreateJWT(user) ==
    /\ pc = "listening"
    /\ jwtCall' = [t |-> "call", user |-> user, at |-> now,
                   token |-> createJWT(user, secret, now)]
    /\ UNCHANGED <<pc, envFile, secret, now, running, reqs>>

GateNext ==
    \/ \E r \in Reqs : Protect(r)
    \/ \E user \in Users : CallCreateJWT(user)

GateSpec == GateInit /\ [][GateNext]_vars

(* ------------------------------- claims ------------------------------- *)

(* the request has been through the /api mount's first stage *)
PastGate(q) ==
    UnderApi(q.target.path) /\ q.stage \in {"router", "hung", "final", "done"}

(* the 401 answer, with nothing downstream called *)
Rejected(q) ==
    /\ q.stage = "done" /\ q.sent
    /\ q.statusCode = 401 /\ q.body = "Not authorized"
    /\ q.nextCalls = 0

(* next() called once by protect, which wrote no answer itself *)
Forwarded(q) ==
    /\ q.nextCalls = 1
    /\ q.logged = "payload"
    /\ ~(q.statusCode = 401 /\ q.body = "Not authorized")

(* jwt.verify was called: its exception or its payload was logged *)
VerifyAttempted(q) == q.logged \in {"error", "payload"}

IsWs(a) == a \in {SP, WS}

(* splitting the string on whitespace leaves a second part that is not   *)
(* empty: somewhere a character that is not whitespace follows whitespace *)
HasSecondPart(s) ==
    \E i \in 1..(Len(s) - 1) : IsWs(s[i]) /\ ~IsWs(s[i+1])

(* something other than a space directly follows the string's first space *)
SecondPieceNonEmpty(s) ==
    \E i \in 1..(Len(s) - 1) :
        s[i] = SP /\ s[i+1] # SP /\ \A m \in 1..(i-1) : s[m] # SP

(* `<scheme> <token>...` whose token does not verify under key at time t:  *)
(* not a token, trailing text, another key, an altered payload, or expired *)
PresentsBadToken(s, key, t) ==
    /\ Len(s) >= 3 /\ s[1] # SP /\ s[2] = SP /\ s[3] # SP
    /\ \/ Len(s) >= 4 /\ s[4] # SP
       \/ s[3].kind # "jwt"
       \/ /\ s[3].kind = "jwt"
          /\ \/ key = NoSecret
             \/ s[3].sig.key # key
             \/ s[3].sig.msg # s[3].payload
             \/ \E e \in s[3].payload.exp : t >= e

(* C1: a request to /api without an Authorization header never reaches the *)
(* router or a handler: it is answered 401 and next is not called.         *)
C1_NoHeaderRejected ==
    \A r \in Reqs :
        LET q == reqs[r] IN
        (UnderApi(q.target.path) /\ q.header = Undef) =>
            /\ q.stage \notin {"router", "hung", "final"}
            /\ q.nextCalls = 0
            /\ q.stage = "done" => Rejected(q)

C1_Witness ==
    \E r \in Reqs :
        /\ reqs[r].header = Undef /\ UnderApi(reqs[r].target.path)
        /\ Rejected(reqs[r])

(* C2 as stated: a header without a second whitespace-separated part is    *)
(* rejected with 401, next is not called, and verification is not tried.   *)
C2_Original ==
    \A r \in Reqs :
        LET q == reqs[r] IN
        (PastGate(q) /\ q.header # Undef /\ ~HasSecondPart(q.header.s)) =>
            Rejected(q) /\ ~VerifyAttempted(q)

(* C2 amended: such a header is rejected with 401 and next is not called;  *)
(* verification is tried exactly when something other than a space follows *)
(* the header's first space (then it is whitespace only, and it fails).    *)
C2_Amended ==
    \A r \in Reqs :
        LET q == reqs[r] IN
        (PastGate(q) /\ q.header # Undef /\ ~HasSecondPart(q.header.s)) =>
            /\ Rejected(q)
            /\ q.user = Undef
            /\ VerifyAttempted(q) <=> SecondPieceNonEmpty(q.header.s)

C2_Witness ==
    /\ reqs[1].header = Str(<<Word, SP, WS>>)
    /\ Rejected(reqs[1])
    /\ reqs[1].logged = "error"

(* C3: a token createJWT made for a user under the configured secret,      *)
(* presented as `Bearer <token>`, is forwarded: next is called exactly     *)
(* once, no 401 is written, and req.user carries that id and username.     *)
C3_IssuedTokenForwarded ==
    \A r \in Reqs :
        LET q == reqs[r] IN
        \A u \in Users, t0 \in 0..now :
            (/\ PastGate(q) /\ secret # NoSecret
             /\ q.header = Bearer(createJWT(u, secret, t0))) =>
                /\ q.nextCalls = 1
                /\ ~q.sent /\ q.statusCode # 401
                /\ q.user # Undef
                /\ q.user.f.id = u.id /\ q.user.f.username = u.username

C3_Witness ==
    /\ secret = "s1" /\ now = 1
    /\ reqs[1].header = Bearer(createJWT(Bob, "s1", 0))
    /\ reqs[1].stage = "router"
    /\ reqs[1].user.f.username = "bob"

(* C4: a token that does not verify (another secret, an altered payload,   *)
(* not a token at all, expired) is rejected with 401: next is not called   *)
(* and no identity is attached.                                            *)
C4_BadTokenRejected ==
    \A r \in Reqs :
        LET q == reqs[r] IN
        (/\ PastGate(q) /\ q.header # Undef
         /\ PresentsBadToken(q.header.s, secret, now)) =>
            Rejected(q) /\ q.user = Undef

C4_Witness ==
    LET q == reqs[1] IN
    /\ secret = "s1" /\ now = 1
    /\ q.header = Bearer(sign([id |-> 1, username |-> "ana", exp |-> {1}], "s1", 0))
    /\ Rejected(q) /\ q.user = Undef /\ q.logged = "error"

(* C5: a request protect has handled was either forwarded or rejected,     *)
(* never both, and a rejection is always status 401 with the body          *)
(* "Not authorized", whatever the cause.                                   *)
C5_UniformRejection ==
    \A r \in Reqs :
        LET q == reqs[r] IN
        PastGate(q) =>
            /\ Forwarded(q) \/ Rejected(q)
            /\ ~(Forwarded(q) /\ Rejected(q))
            /\ q.nextCalls = 0 =>
                  /\ q.sent /\ q.statusCode = 401 /\ q.body = "Not authorized"
                  /\ q.user = Undef

C5_Witness ==
    LET q == reqs[1] IN
    /\ secret = "s1"
    /\ q.header = Bearer(createJWT(Ana, "s2", 0))
    /\ q.logged = "error"
    /\ q.statusCode = 401 /\ q.body = "Not authorized" /\ q.nextCalls = 0

(* the router has taken the request *)
RouterReached(q) ==
    \/ q.stage \in {"router", "hung"}
    \/ q.stage = "final" /\ UnderApi(q.target.path)
    \/ q.stage = "done" /\ q.statusCode # 401 /\ UnderApi(q.target.path)

(* the header's token verified under the secret at some time up to now *)
TokenVerified(q) ==
    /\ q.header # Undef
    /\ Len(q.header.s) = 3 /\ q.header.s[2] = SP /\ q.header.s[3].kind = "jwt"
    /\ q.header.s[3].sig = [key |-> secret, msg |-> q.header.s[3].payload]
    /\ secret # NoSecret
    /\ \E t \in 0..now : \A e \in q.header.s[3].payload.exp : t < e

(* C6: a request to /api reaches the router only after protect forwarded   *)
(* it, which takes a token that verified.                                  *)
C6_ApiNeedsJwt ==
    \A r \in Reqs :
        LET q == reqs[r] IN
        (UnderApi(q.target.path) /\ RouterReached(q)) =>
            /\ Forwarded(q)
            /\ TokenVerified(q)

C6_Witness ==
    \E r \in Reqs :
        /\ reqs[r].target = Target("GET", <<"api", "product">>)
        /\ reqs[r].stage = "done" /\ reqs[r].body = "product"
        /\ Forwarded(reqs[r])

(* C7: while a handler runs for a request protect forwarded, and until the *)
(* request ends, req.user is the payload of the request's own token.       *)
C7_IdentityAttached ==
    \A r \in Reqs :
        LET q == reqs[r] IN
        (q.nextCalls >= 1 /\ q.stage \in {"router", "hung", "final", "done"}) =>
            /\ q.user # Undef
            /\ q.user.t = "obj"
            /\ q.header # Undef
            /\ q.user.f = q.header.s[3].payload

C7_Witness ==
    \E r \in Reqs :
        /\ reqs[r].stage = "hung"
        /\ reqs[r].user # Undef
        /\ reqs[r].user.f.id = 1

(* C8 as stated: what verify returns for a token createJWT made is the     *)
(* identity record itself.                                                 *)
C8_Original ==
    (jwtCall # Undef /\ jwtCall.token # Throw) =>
        \A t \in Times :
            /\ verify(jwtCall.token, secret, t) # Throw
            /\ verify(jwtCall.token, secret, t).f = jwtCall.user

(* C8 amended: what verify returns for a token createJWT made carries the  *)
(* identity's id and username unchanged, and with them the claim iat, the  *)
(* time of issue, that signing added; no other claim.                      *)
C8_Amended ==
    (jwtCall # Undef /\ jwtCall.token # Throw) =>
        \A t \in Times :
            /\ verify(jwtCall.token, secret, t) # Throw
            /\ verify(jwtCall.token, secret, t).f =
                  [id |-> jwtCall.user.id, username |-> jwtCall.user.username,
                   iat |-> jwtCall.at, exp |-> NoExp]

C8_Witness ==
    /\ jwtCall # Undef /\ jwtCall.token # Throw
    /\ jwtCall.user = Bob /\ jwtCall.at = 1
    /\ verify(jwtCall.token, secret, now) # Throw

(* C9 as stated: without JWT_SECRET the process never listens and never    *)
(* answers a request.                                                      *)
C9_Original ==
    (pc # "boot" /\ secret = NoSecret) =>
        /\ pc # "listening"
        /\ \A r \in Reqs : ~reqs[r].sent

(* C9 amended: without JWT_SECRET the process still listens and answers;   *)
(* the failure shows per request: protect forwards nothing, and a request  *)
(* to /api that presents a signed token or none is answered 401.           *)
C9_Amended ==
    (pc # "boot" /\ secret = NoSecret) =>
        \A r \in Reqs :
            LET q == reqs[r] IN
            /\ q.nextCalls = 0
            /\ q.user = Undef
            /\ ~RouterReached(q)
            /\ PastGate(q) => Rejected(q)

C9_Witness ==
    /\ pc = "listening" /\ secret = NoSecret
    /\ \E r \in Reqs :
          /\ reqs[r].header = Bearer(createJWT(Ana, "s1", 0))
          /\ Rejected(reqs[r])
    /\ \E r \in Reqs :
          /\ reqs[r].target = Target("GET", <<>>)
          /\ reqs[r].sent /\ reqs[r].statusCode = 200

(* whether, and as whom, a header gets through under key at time t *)
Admits(header, key, t) ==
    /\ header # Undef /\ key # NoSecret
    /\ Len(header.s) = 3 /\ header.s[2] = SP /\ header.s[3].kind = "jwt"
    /\ header.s[3].sig = [key |-> key, msg |-> header.s[3].payload]
    /\ \A e \in header.s[3].payload.exp : t < e

(* C10: the step that takes a request through protect is decided by that   *)
(* request's header, the secret and the time alone, gives it its own       *)
(* token's identity or a 401, and leaves every other request as it was.    *)
C10_Independent ==
    [][\A r \in Reqs :
          (reqs[r].stage = "protect" /\ reqs'[r].stage # "protect") =>
              /\ \A o \in Reqs \ {r} : reqs'[o] = reqs[o]
              /\ secret' = secret
              /\ IF Admits(reqs[r].header, secret, now)
                 THEN /\ reqs'[r].nextCalls = 1
                      /\ reqs'[r].user = Obj(reqs[r].header.s[3].payload)
                 ELSE Rejected(reqs'[r]) /\ reqs'[r].user = Undef]_vars

C10_Witness ==
    /\ reqs[1].stage = "hung" /\ reqs[1].user # Undef
    /\ reqs[2].stage = "hung" /\ reqs[2].user # Undef
    /\ reqs[1].user.f.id = 1 /\ reqs[2].user.f.id = 2

====
